---- MODULE Spec2Model ----
(***************************************************************************)
(* A model of src/mupuzzle.py: the class muPuzzle, its rule predicates,    *)
(* rule transforms, get_options, discover_local_network and random_walk.   *)
(*                                                                         *)
(* A Python string is a sequence of one-character strings.  A Python dict  *)
(* is a function whose domain is its key set.  Python's None is the value  *)
(* None below, which is no string over the alphabet.                       *)
(***************************************************************************)
EXTENDS Integers, Sequences, FiniteSets, TLC

VARIABLES pc, fn, axiom, num_steps, i, nodes, edges, todo, new_neighbours,
          string, strings, rules, arg, index, ret

vars == <<pc, fn, axiom, num_steps, i, nodes, edges, todo, new_neighbours,
          string, strings, rules, arg, index, ret>>

---------------------------------------------------------------------------
(* Bounds of the model *)

\* longest axiom the object is constructed with
MaxAxiomLen == 3
\* largest num_steps handed to discover_local_network
MaxDepth == 2
\* largest num_steps handed to random_walk
MaxSteps == 3
\* longest string (and largest index) handed to a rule function directly
MaxStrLen == 5

---------------------------------------------------------------------------
(* Values *)

Alphabet == {"M", "I", "U"}

StringsOfLen(lo, hi) == UNION {[1..k -> Alphabet] : k \in lo..hi}

None == <<"None">>

EmptyDict == [k \in {} |-> None]

Keys(d) == DOMAIN d

\* d[k] = v on a dict: a new key is added, an old key is overwritten
DictSet(d, k, v) == (k :> v) @@ d

Min(a, b) == IF a < b THEN a ELSE b

\* s[a:b], s[a:] and s[:b] for a, b >= 0: the bounds are clipped to the string
PySlice(s, a, b) == SubSeq(s, a + 1, Min(b, Len(s)))
PyFrom(s, a) == SubSeq(s, a + 1, Len(s))
PyTo(s, b) == SubSeq(s, 1, Min(b, Len(s)))
\* s[-1:]: the last character, or the empty string
PyLast(s) == IF Len(s) = 0 THEN <<>> ELSE <<s[Len(s)]>>

\* s.startswith(sub, k)
startswith(s, sub, k) == PySlice(s, k, k + Len(sub)) = sub

\* s.find(sub): the lowest index at which sub occurs, or -1
find(s, sub) ==
    LET hits == {k \in 0..(Len(s) - Len(sub)) : startswith(s, sub, k)}
    IN  IF hits = {} THEN -1
        ELSE CHOOSE k \in hits : \A m \in hits : k <= m

DigitChars == <<"0", "1", "2", "3", "4", "5", "6", "7", "8", "9">>

\* the decimal text of n >= 0, as an f-string formats {index}
RECURSIVE PyStr(_)
PyStr(n) == IF n < 10 THEN <<DigitChars[n + 1]>>
            ELSE PyStr(n \div 10) \o <<DigitChars[(n % 10) + 1]>>

III == <<"I", "I", "I">>
UU == <<"U", "U">>

---------------------------------------------------------------------------
(* Rule predicates *)

rule_one_possible(s) == PyLast(s) = <<"I">>

\* a slip: something to double is asked for after the 'M'
rule_two_possible_with_tail(s) == PyTo(s, 1) = <<"M">> /\ Len(s) > 1

rule_two_possible(s) == PyTo(s, 1) = <<"M">>

rule_three_possible(s) == find(s, III) # -1

rule_four_possible(s) == find(s, UU) # -1

\* a slip: only the first site is found
rule_three_indices_first(s) ==
    IF find(s, III) = -1 THEN <<>> ELSE <<find(s, III)>>

\* a slip: overlapping occurrences are skipped (as re.finditer or str.count do)
RECURSIVE NonOverlappingFrom(_, _)
NonOverlappingFrom(s, k) ==
    IF k + 3 > Len(s) THEN <<>>
    ELSE IF startswith(s, III, k) THEN <<k>> \o NonOverlappingFrom(s, k + 3)
    ELSE NonOverlappingFrom(s, k + 1)

rule_three_indices_nonoverlapping(s) == NonOverlappingFrom(s, 0)

rule_three_indices(s) ==
    LET Test(k) == startswith(s, III, k)
    IN  SelectSeq([k \in 1..Len(s) |-> k - 1], Test)

---------------------------------------------------------------------------
(* Rule transforms *)

\* a slip: the applicability check is left out
apply_rule_one_unchecked(s) == s \o <<"U">>

apply_rule_one(s) ==
    IF rule_one_possible(s) THEN s \o <<"U">> ELSE None

\* a slip: the whole string is doubled, the leading 'M' included
apply_rule_two_whole(s) ==
    IF rule_two_possible(s) THEN s \o s ELSE None

apply_rule_two(s) ==
    IF rule_two_possible(s) THEN s \o PyFrom(s, 1) ELSE None

\* a slip: two characters are replaced instead of three
apply_rule_three_short(s, ix) ==
    IF rule_three_possible(s) THEN PyTo(s, ix) \o <<"U">> \o PyFrom(s, ix + 2)
    ELSE None

\* a slip: the index is ignored and the first 'III' is replaced (find, as in
\* apply_rule_four)
apply_rule_three_first_site(s, ix) ==
    IF rule_three_possible(s)
    THEN LET at == find(s, III) IN PyTo(s, at) \o <<"U">> \o PyFrom(s, at + 3)
    ELSE None

\* a slip: four characters are replaced instead of three
apply_rule_three_long(s, ix) ==
    IF rule_three_possible(s) THEN PyTo(s, ix) \o <<"U">> \o PyFrom(s, ix + 4)
    ELSE None

apply_rule_three(s, ix) ==
    IF rule_three_possible(s) THEN PyTo(s, ix) \o <<"U">> \o PyFrom(s, ix + 3)
    ELSE None

\* a slip: the rightmost 'UU' is removed (rfind for find)
apply_rule_four_rightmost(s) ==
    IF rule_four_possible(s)
    THEN LET hits == {k \in 0..(Len(s) - 2) : startswith(s, UU, k)}
             ix == CHOOSE k \in hits : \A m \in hits : m <= k
         IN  PyTo(s, ix) \o PyFrom(s, ix + 2)
    ELSE None

\* a slip: every 'UU' is removed (str.replace)
RECURSIVE RemoveAllUU(_)
RemoveAllUU(s) ==
    IF Len(s) < 2 THEN s
    ELSE IF startswith(s, UU, 0) THEN RemoveAllUU(PyFrom(s, 2))
    ELSE <<Head(s)>> \o RemoveAllUU(Tail(s))

apply_rule_four_all(s) ==
    IF rule_four_possible(s) THEN RemoveAllUU(s) ELSE None

apply_rule_four(s) ==
    IF rule_four_possible(s)
    THEN LET ix == find(s, UU) IN PyTo(s, ix) \o PyFrom(s, ix + 2)
    ELSE None

---------------------------------------------------------------------------
(* get_options *)

\* a slip: the site is counted from one
RuleThreeLabelOneBased(ix) == <<"3", "i">> \o PyStr(ix + 1)

RuleThreeLabel(ix) == <<"3", "i">> \o PyStr(ix)

\* the for loop of get_options over rule_three_indices(string)
RECURSIVE RuleThreeLoop(_, _, _)
RuleThreeLoop(options, s, indices) ==
    IF indices = <<>> THEN options
    ELSE RuleThreeLoop(
            DictSet(options, apply_rule_three(s, Head(indices)),
                    RuleThreeLabel(Head(indices))),
            s, Tail(indices))

get_options(s) ==
    LET o0 == EmptyDict
        o1 == IF rule_one_possible(s)
              THEN DictSet(o0, apply_rule_one(s), <<"1">>) ELSE o0
        o2 == IF rule_two_possible(s)
              THEN DictSet(o1, apply_rule_two(s), <<"2">>) ELSE o1
        o3 == IF rule_three_possible(s)
              THEN RuleThreeLoop(o2, s, rule_three_indices(s)) ELSE o2
        o4 == IF rule_four_possible(s)
              THEN DictSet(o3, apply_rule_four(s), <<"4">>) ELSE o3
    IN  o4

---------------------------------------------------------------------------
(* The object and its callers *)

Axioms == StringsOfLen(1, MaxAxiomLen)

RuleInputs == StringsOfLen(0, MaxStrLen)

\* no call is running: the locals of the methods do not exist
NoLocals ==
    /\ i = 0
    /\ nodes = {}
    /\ edges = EmptyDict
    /\ todo = {}
    /\ new_neighbours = {}
    /\ string = <<>>
    /\ strings = <<>>
    /\ rules = <<>>

NoLocalsNext ==
    /\ i' = 0
    /\ nodes' = {}
    /\ edges' = EmptyDict
    /\ todo' = {}
    /\ new_neighbours' = {}
    /\ string' = <<>>
    /\ strings' = <<>>
    /\ rules' = <<>>

\* what the caller of the object's two methods holds: nothing yet, the pair a
\* method returned, or the exception that left it. Each is a record, so that
\* the results of any two calls can be compared.
NoResult == [none |-> TRUE]

\* muPuzzle(axiom)
Init ==
    /\ axiom \in Axioms
    /\ pc = "idle"
    /\ fn = "__init__"
    /\ num_steps = 0
    /\ arg = <<>>
    /\ index = 0
    /\ ret = NoResult
    /\ NoLocals

\* a caller may call a method when no call is running; an earlier call's
\* result or exception is gone by then
Callable == pc \in {"idle", "returned", "raised"}

---------------------------------------------------------------------------
(* discover_local_network *)

\* a slip: one round too many
RoundConditionInclusive(k, n) == k <= n

\* the condition of the while loop
RoundCondition(k, n) == k < n

\* a slip: the pair is stored as (neighbour, node)
RecordEdgesReversed(es, node, options) ==
    [e \in (DOMAIN es) \cup {<<d, node>> : d \in DOMAIN options} |->
        IF e[2] = node /\ e[1] \in DOMAIN options THEN options[e[1]] ELSE es[e]]

\* a slip: the items are unpacked as (rule, neighbour)
RecordEdgesSwapped(es, node, options) ==
    [e \in (DOMAIN es) \cup {<<node, options[d]>> : d \in DOMAIN options} |->
        IF e[1] = node /\ (\E d \in DOMAIN options : options[d] = e[2])
        THEN CHOOSE d \in DOMAIN options : options[d] = e[2]
        ELSE es[e]]

\* the inner for loop: edges[tuple([node, neighbour])] = rule for every item
RecordEdges(es, node, options) ==
    [e \in (DOMAIN es) \cup {<<node, d>> : d \in DOMAIN options} |->
        IF e[1] = node /\ e[2] \in DOMAIN options THEN options[e[2]] ELSE es[e]]

\* a slip: the new neighbours replace the nodes
MergeNeighboursReplace(ns, new) == new

\* the loop nodes.add(new_neighbour) over new_neighbours
MergeNeighbours(ns, new) == ns \cup new

DiscoverCall(n) ==
    /\ Callable
    /\ pc' = "discover_while"
    /\ fn' = "discover_local_network"
    /\ num_steps' = n
    /\ nodes' = {axiom}
    /\ edges' = EmptyDict
    /\ i' = 0
    /\ ret' = NoResult
    /\ todo' = {}
    /\ new_neighbours' = {}
    /\ string' = <<>>
    /\ strings' = <<>>
    /\ rules' = <<>>
    /\ UNCHANGED <<axiom, arg, index>>

\* while i<num_steps: new_neighbours = []; for node in nodes:
\* new_neighbours is only ever read by the loop that adds each of its elements
\* to the set nodes, so it is kept as the set of its elements; todo holds the
\* nodes the for loop has still to visit (a set is iterated in any order)
DiscoverRoundBegin ==
    /\ pc = "discover_while"
    /\ RoundCondition(i, num_steps)
    /\ new_neighbours' = {}
    /\ todo' = nodes
    /\ pc' = "discover_for"
    /\ UNCHANGED <<fn, axiom, num_steps, i, nodes, edges, string, strings,
                   rules, arg, index, ret>>

\* a slip: an edge into a neighbour already collected in this round is skipped
DiscoverExpandNodeSkipSeen ==
    /\ pc = "discover_for"
    /\ \E node \in todo :
          LET neighbour_rule_pairs == get_options(node)
              fresh == [d \in Keys(neighbour_rule_pairs) \ new_neighbours |->
                           neighbour_rule_pairs[d]]
          IN  /\ edges' = RecordEdges(edges, node, fresh)
              /\ new_neighbours' = new_neighbours \cup Keys(neighbour_rule_pairs)
              /\ todo' = todo \ {node}
    /\ UNCHANGED <<pc, fn, axiom, num_steps, i, nodes, string, strings, rules,
                   arg, index, ret>>

\* one iteration of for node in nodes
DiscoverExpandNode ==
    /\ pc = "discover_for"
    /\ \E node \in todo :
          LET neighbour_rule_pairs == get_options(node)
          IN  /\ edges' = RecordEdges(edges, node, neighbour_rule_pairs)
              /\ new_neighbours' = new_neighbours \cup Keys(neighbour_rule_pairs)
              /\ todo' = todo \ {node}
    /\ UNCHANGED <<pc, fn, axiom, num_steps, i, nodes, string, strings, rules,
                   arg, index, ret>>

\* a slip: i+=1 is left out
DiscoverRoundEndNoIncrement ==
    /\ pc = "discover_for"
    /\ todo = {}
    /\ nodes' = MergeNeighbours(nodes, new_neighbours)
    /\ pc' = "discover_while"
    /\ UNCHANGED <<fn, axiom, num_steps, i, edges, todo, new_neighbours, string,
                   strings, rules, arg, index, ret>>

\* the for loop is over: the new neighbours join the nodes, i+=1
DiscoverRoundEnd ==
    /\ pc = "discover_for"
    /\ todo = {}
    /\ nodes' = MergeNeighbours(nodes, new_neighbours)
    /\ i' = i + 1
    /\ pc' = "discover_while"
    /\ UNCHANGED <<fn, axiom, num_steps, edges, todo, new_neighbours, string,
                   strings, rules, arg, index, ret>>

DiscoverReturn ==
    /\ pc = "discover_while"
    /\ ~RoundCondition(i, num_steps)
    /\ ret' = [nodes |-> nodes, edges |-> edges]
    /\ pc' = "returned"
    /\ NoLocalsNext
    /\ UNCHANGED <<fn, axiom, num_steps, arg, index>>

---------------------------------------------------------------------------
(* random_walk *)

\* a slip: rules starts empty
InitialRulesEmpty == <<>>

\* rules = [None,]
InitialRules == <<None>>

\* the condition of the while loop
WalkCondition(k, n) == k < n

WalkCall(n) ==
    /\ Callable
    /\ pc' = "walk_while"
    /\ fn' = "random_walk"
    /\ num_steps' = n
    /\ string' = axiom
    /\ strings' = <<axiom>>
    /\ rules' = InitialRules
    /\ i' = 0
    /\ ret' = NoResult
    /\ nodes' = {}
    /\ edges' = EmptyDict
    /\ todo' = {}
    /\ new_neighbours' = {}
    /\ UNCHANGED <<axiom, arg, index>>

\* one iteration of the while loop: random.choice picks any key
WalkStep ==
    /\ pc = "walk_while"
    /\ WalkCondition(i, num_steps)
    /\ LET options == get_options(string)
       IN  \E choice \in Keys(options) :
              /\ string' = choice
              /\ strings' = Append(strings, choice)
              /\ rules' = Append(rules, options[choice])
    /\ i' = i + 1
    /\ UNCHANGED <<pc, fn, axiom, num_steps, nodes, edges, todo,
                   new_neighbours, arg, index, ret>>

\* random.choice of an empty list raises ValueError, which nothing catches
WalkRaise ==
    /\ pc = "walk_while"
    /\ WalkCondition(i, num_steps)
    /\ Keys(get_options(string)) = {}
    /\ pc' = "raised"
    /\ ret' = [exception |-> "ValueError"]
    /\ NoLocalsNext
    /\ UNCHANGED <<fn, axiom, num_steps, arg, index>>

WalkReturn ==
    /\ pc = "walk_while"
    /\ ~WalkCondition(i, num_steps)
    /\ ret' = [rules |-> rules, strings |-> strings]
    /\ pc' = "returned"
    /\ NoLocalsNext
    /\ UNCHANGED <<fn, axiom, num_steps, arg, index>>

Next ==
    \/ \E n \in 0..MaxDepth : DiscoverCall(n)
    \/ DiscoverRoundBegin
    \/ DiscoverExpandNode
    \/ DiscoverRoundEnd
    \/ DiscoverReturn
    \/ \E n \in 0..MaxSteps : WalkCall(n)
    \/ WalkStep
    \/ WalkRaise
    \/ WalkReturn

Spec == Init /\ [][Next]_vars

\* a step of a running call: the code is single-threaded and synchronous, so
\* a call that can take its next step takes it
MethodStep ==
    \/ DiscoverRoundBegin
    \/ DiscoverExpandNode
    \/ DiscoverRoundEnd
    \/ DiscoverReturn
    \/ WalkStep
    \/ WalkRaise
    \/ WalkReturn

SpecFair == Init /\ [][Next]_vars /\ WF_vars(MethodStep)

---------------------------------------------------------------------------
(* The rule functions called directly, on any string *)

InitRules ==
    /\ axiom = <<"M", "I">>
    /\ pc = "call"
    /\ fn = "__init__"
    /\ num_steps = 0
    /\ arg \in RuleInputs
    /\ index \in 0..MaxStrLen
    /\ ret = None
    /\ NoLocals

Returns(name, value) ==
    /\ pc = "call"
    /\ pc' = "returned"
    /\ fn' = name
    /\ ret' = value
    /\ UNCHANGED <<axiom, num_steps, i, nodes, edges, todo, new_neighbours,
                   string, strings, rules, arg, index>>

CallRuleOnePossible == Returns("rule_one_possible", rule_one_possible(arg))
CallRuleTwoPossible == Returns("rule_two_possible", rule_two_possible(arg))
CallRuleThreePossible == Returns("rule_three_possible", rule_three_possible(arg))
CallRuleFourPossible == Returns("rule_four_possible", rule_four_possible(arg))
CallRuleThreeIndices == Returns("rule_three_indices", rule_three_indices(arg))
CallGetOptions == Returns("get_options", get_options(arg))
CallApplyRuleOne == Returns("apply_rule_one", apply_rule_one(arg))
CallApplyRuleTwo == Returns("apply_rule_two", apply_rule_two(arg))
CallApplyRuleThree == Returns("apply_rule_three", apply_rule_three(arg, index))
CallApplyRuleFour == Returns("apply_rule_four", apply_rule_four(arg))

NextRules ==
    \/ CallRuleOnePossible
    \/ CallRuleTwoPossible
    \/ CallRuleThreePossible
    \/ CallRuleFourPossible
    \/ CallRuleThreeIndices
    \/ CallGetOptions
    \/ CallApplyRuleOne
    \/ CallApplyRuleTwo
    \/ CallApplyRuleThree
    \/ CallApplyRuleFour

SpecRules == InitRules /\ [][NextRules]_vars

---------------------------------------------------------------------------
(* The rules as the puzzle states them, on 1-based sequences; the claims   *)
(* below compare the program with these.                                   *)

MI == <<"M", "I">>
MII == <<"M", "I", "I">>
MIU == <<"M", "I", "U">>
MUI == <<"M", "U", "I">>
MIIII == <<"M", "I", "I", "I", "I">>

EndsInI(s) == Len(s) > 0 /\ s[Len(s)] = "I"

StartsWithM(s) == Len(s) > 0 /\ s[1] = "M"

\* the 1-based positions at which 'III' occurs
Sites(s) == {k \in 1..(Len(s) - 2) : s[k] = "I" /\ s[k + 1] = "I" /\ s[k + 2] = "I"}

\* the 1-based positions at which 'UU' occurs
Pairs(s) == {k \in 1..(Len(s) - 1) : s[k] = "U" /\ s[k + 1] = "U"}

Leftmost(S) == CHOOSE k \in S : \A m \in S : k <= m

AppendU(s) == s \o <<"U">>

Doubled(s) == s \o Tail(s)

ReplacedAt(s, k) == SubSeq(s, 1, k - 1) \o <<"U">> \o SubSeq(s, k + 3, Len(s))

RemovedAt(s, k) == SubSeq(s, 1, k - 1) \o SubSeq(s, k + 2, Len(s))

\* the strings one rule application away from s
RuleSuccessors(s) ==
    (IF EndsInI(s) THEN {AppendU(s)} ELSE {})
    \cup (IF StartsWithM(s) THEN {Doubled(s)} ELSE {})
    \cup {ReplacedAt(s, k) : k \in Sites(s)}
    \cup (IF Pairs(s) # {} THEN {RemovedAt(s, Leftmost(Pairs(s)))} ELSE {})

\* the strings at most k rule applications away from ax
RECURSIVE ReachWithin(_, _)
ReachWithin(ax, k) ==
    IF k = 0 THEN {ax}
    ELSE LET r == ReachWithin(ax, k - 1)
         IN  r \cup UNION {RuleSuccessors(s) : s \in r}

DiscoverRunning == pc \in {"discover_while", "discover_for"}

DiscoverReturned == pc = "returned" /\ fn = "discover_local_network"

WalkReturned == pc = "returned" /\ fn = "random_walk"

Returned(name) == pc = "returned" /\ fn = name

---------------------------------------------------------------------------
(* C1 *)

\* C1: between the rounds and inside round i+1 the node set is exactly the
\* set of strings at most i rule applications away from the axiom, and the
\* returned node set is exactly the set of strings at most num_steps rule
\* applications away from it (the axiom included).
C1_NodesAreReachWithin ==
    /\ DiscoverRunning => nodes = ReachWithin(axiom, i)
    /\ DiscoverReturned => ret.nodes = ReachWithin(axiom, num_steps)

\* a depth-2 network whose second round expanded nodes found in the first
C1_Witness ==
    /\ DiscoverReturned
    /\ num_steps = 2
    /\ ReachWithin(axiom, 2) # ReachWithin(axiom, 1)
    /\ ret.nodes = ReachWithin(axiom, 2)

---------------------------------------------------------------------------
(* C2 *)

\* C2 as stated: in the returned network, whenever s and d are both nodes
\* and d is a key of get_options(s), the pair (s, d) is a key of edges.
C2_EdgesCoverAllTransitions ==
    DiscoverReturned =>
        \A s \in ret.nodes : \A d \in ret.nodes :
            d \in Keys(get_options(s)) => <<s, d>> \in DOMAIN ret.edges

\* C2 as amended: in the returned network of a depth >= 1, whenever s is a
\* node that was expanded (s is at most num_steps - 1 rule applications from
\* the axiom) and d is a key of get_options(s), d is a node and the pair
\* (s, d) is a key of edges, also when d had been discovered before; the
\* transitions out of the nodes first found in the last round are not recorded.
C2_EdgesCoverExpandedSources ==
    (DiscoverReturned /\ num_steps > 0) =>
        \A s \in ReachWithin(axiom, num_steps - 1) :
            \A d \in Keys(get_options(s)) :
                /\ s \in ret.nodes
                /\ d \in ret.nodes
                /\ <<s, d>> \in DOMAIN ret.edges

\* a returned network with an edge into a state that was already discovered
\* when the edge was recorded: an edge from another node back to the axiom
C2_Witness ==
    /\ DiscoverReturned
    /\ num_steps > 0
    /\ \E e \in DOMAIN ret.edges :
          /\ e[1] # axiom
          /\ e[2] = axiom
          /\ e[1] \in ReachWithin(axiom, num_steps - 1)

---------------------------------------------------------------------------
(* C4 *)

\* C4: discover_local_network(0) runs no round and returns nodes = {axiom}
\* and an empty edge map; for the axiom 'MI' the nodes are {'MI'}.
C4_DepthZero ==
    /\ (DiscoverRunning /\ num_steps = 0) => (pc = "discover_while" /\ i = 0)
    /\ (DiscoverReturned /\ num_steps = 0) =>
          /\ ret.nodes = {axiom}
          /\ DOMAIN ret.edges = {}
          /\ axiom = MI => ret = [nodes |-> {<<"M", "I">>}, edges |-> EmptyDict]

C4_Witness ==
    /\ DiscoverReturned
    /\ num_steps = 0
    /\ axiom = MI
    /\ ret.nodes = {MI}

---------------------------------------------------------------------------
(* C5 *)

\* C5: discover_local_network(1) returns nodes = {axiom} united with the keys
\* of get_options(axiom) and the edge map (axiom, d) -> get_options(axiom)[d]
\* for every successor d; for the axiom 'MI': nodes {'MI', 'MIU', 'MII'} and
\* edges ('MI','MIU') -> '1', ('MI','MII') -> '2'.
C5_DepthOne ==
    (DiscoverReturned /\ num_steps = 1) =>
        /\ ret.nodes = {axiom} \cup Keys(get_options(axiom))
        /\ DOMAIN ret.edges = {<<axiom, d>> : d \in Keys(get_options(axiom))}
        /\ \A d \in Keys(get_options(axiom)) :
              ret.edges[<<axiom, d>>] = get_options(axiom)[d]
        /\ axiom = MI =>
              /\ ret.nodes = {MI, MIU, MII}
              /\ ret.edges[<<MI, MIU>>] = <<"1">>
              /\ ret.edges[<<MI, MII>>] = <<"2">>

C5_Witness ==
    /\ DiscoverReturned
    /\ num_steps = 1
    /\ axiom = MI
    /\ Cardinality(ret.nodes) = 3
    /\ Cardinality(DOMAIN ret.edges) = 2

---------------------------------------------------------------------------
(* C7 *)

\* C7: a walk that reaches a state with an empty option set before num_steps
\* steps are taken ends in a shorter Path or an explicit error of its own,
\* never in an unhandled fault (the only exception the method can end in is
\* the ValueError of random.choice, which it neither raises itself nor catches).
C7_WalkNeverFaults ==
    fn = "random_walk" => pc # "raised"

---------------------------------------------------------------------------
(* C8 *)

\* C8: whenever random_walk(num_steps) returns, strings and rules both have
\* length num_steps+1, strings[0] is the axiom, rules[0] is None, and for
\* every k > 0 strings[k] is a key of get_options(strings[k-1]) and rules[k]
\* is its label there; random_walk(0) returns the axiom and one None.
C8_PathShape ==
    WalkReturned =>
        /\ Len(ret.strings) = num_steps + 1
        /\ Len(ret.rules) = num_steps + 1
        /\ ret.strings[1] = axiom
        /\ ret.rules[1] = None
        /\ \A k \in 2..(num_steps + 1) :
              /\ ret.strings[k] \in Keys(get_options(ret.strings[k - 1]))
              /\ ret.strings[k] \in RuleSuccessors(ret.strings[k - 1])
              /\ ret.rules[k] = get_options(ret.strings[k - 1])[ret.strings[k]]
        /\ num_steps = 0 => ret = [rules |-> <<None>>, strings |-> <<axiom>>]

\* a returned walk of three steps that took a rule-3 step
C8_Witness ==
    /\ WalkReturned
    /\ num_steps = 3
    /\ Len(ret.strings) = 4
    /\ \E k \in 2..4 : Head(ret.rules[k]) = "3"

---------------------------------------------------------------------------
(* C3 *)

\* the rule a label stands for: its first character
RuleOf(label) == Head(label)

\* C3: get_options(s) has exactly the successors of s as keys: s+'U' under
\* rule 1 iff s ends in 'I'; s+s[1:] under rule 2 iff s starts with 'M'; under
\* rule 3 the string with 'III' replaced by 'U' for every site of 'III'; under
\* rule 4 the one string with the leftmost 'UU' removed iff s contains 'UU';
\* nothing else; get_options('MI') is {'MIU': '1', 'MII': '2'}; and the
\* result is empty iff no rule applies.
C3_OptionsExact ==
    Returned("get_options") =>
        LET s == arg
            o == ret
            Under(r) == {d \in Keys(o) : RuleOf(o[d]) = r}
        IN  /\ Keys(o) = RuleSuccessors(s)
            /\ Keys(o) = Under("1") \cup Under("2") \cup Under("3") \cup Under("4")
            /\ Under("1") = (IF EndsInI(s) THEN {AppendU(s)} ELSE {})
            /\ \A d \in Under("1") : o[d] = <<"1">>
            /\ Under("2") = (IF StartsWithM(s) THEN {Doubled(s)} ELSE {})
            /\ \A d \in Under("2") : o[d] = <<"2">>
            /\ Under("3") = {ReplacedAt(s, k) : k \in Sites(s)}
            /\ Under("4") = (IF Pairs(s) # {}
                             THEN {RemovedAt(s, Leftmost(Pairs(s)))} ELSE {})
            /\ \A d \in Under("4") : o[d] = <<"4">>
            /\ Cardinality(Under("4")) <= 1
            /\ s = MI => (Keys(o) = {MIU, MII} /\ o[MIU] = <<"1">> /\ o[MII] = <<"2">>)
            /\ (Keys(o) = {}) <=>
                   (~EndsInI(s) /\ ~StartsWithM(s) /\ Sites(s) = {} /\ Pairs(s) = {})

\* get_options of a string in which 'UU' occurs more than once: removing the
\* leftmost 'UU' gives a key, removing some other one does not
C3_Witness ==
    /\ Returned("get_options")
    /\ Cardinality(Pairs(arg)) >= 2
    /\ RemovedAt(arg, Leftmost(Pairs(arg))) \in Keys(ret)
    /\ \E k \in Pairs(arg) : RemovedAt(arg, k) \notin Keys(ret)

---------------------------------------------------------------------------
(* C6 *)

\* C6: apply_rule_three(s, index) with s[index:index+3] # 'III' (also when
\* 'III' occurs elsewhere in s) returns the None sentinel, never a string.
C6_RuleThreeChecksSite ==
    (Returned("apply_rule_three") /\ (index + 1) \notin Sites(arg)) => ret = None

---------------------------------------------------------------------------
(* C9 *)

\* C9: a rule transform called when its applicability predicate is false
\* returns None: apply_rule_one when s does not end in 'I', apply_rule_two
\* when s does not start with 'M', apply_rule_three when s contains no 'III',
\* apply_rule_four when s contains no 'UU'.
C9_NotApplicableGivesNone ==
    /\ (Returned("apply_rule_one") /\ ~EndsInI(arg)) => ret = None
    /\ (Returned("apply_rule_two") /\ ~StartsWithM(arg)) => ret = None
    /\ (Returned("apply_rule_three") /\ Sites(arg) = {}) => ret = None
    /\ (Returned("apply_rule_four") /\ Pairs(arg) = {}) => ret = None

\* apply_rule_one of a non-empty string that does not end in 'I'
C9_Witness ==
    /\ Returned("apply_rule_one")
    /\ Len(arg) > 0
    /\ ~EndsInI(arg)
    /\ ret = None

---------------------------------------------------------------------------
(* C10 *)

\* C10 as stated: apply_rule_three('MIIII', 1) is 'MUI', and index 0 is a
\* site too, where apply_rule_three('MIIII', 0) is the same string 'MUI'.
C10_RuleThreeExample ==
    /\ (Returned("apply_rule_three") /\ arg = MIIII /\ index = 1) => ret = MUI
    /\ (Returned("apply_rule_three") /\ arg = MIIII /\ index = 0) => ret = MUI
    /\ (Returned("rule_three_indices") /\ arg = MIIII) =>
          \E j, k \in 1..Len(ret) : j # k /\ ret[j] = 0 /\ ret[k] = 1

\* C10 as amended: apply_rule_three('MIIII', 1) is 'MUI'; the other site of
\* 'III' in 'MIIII' is index 2 (rule_three_indices('MIIII') is [1, 2]), where
\* apply_rule_three('MIIII', 2) is the different string 'MIU'; index 0 is no
\* site ('MIIII'[0:3] is 'MII') and apply_rule_three('MIIII', 0) is not 'MUI'.
C10_RuleThreeSites ==
    /\ (Returned("apply_rule_three") /\ arg = MIIII /\ index = 1) => ret = MUI
    /\ (Returned("apply_rule_three") /\ arg = MIIII /\ index = 2) => ret = MIU
    /\ (Returned("apply_rule_three") /\ arg = MIIII /\ index = 0) => ret # MUI
    /\ (Returned("rule_three_indices") /\ arg = MIIII) => ret = <<1, 2>>

C10_Witness ==
    /\ Returned("apply_rule_three")
    /\ arg = MIIII
    /\ index = 1
    /\ ret = MUI

---------------------------------------------------------------------------
(* C11 *)

IIII == <<"I", "I", "I", "I">>

\* C11: rule_three_indices(s) lists its indices in strictly ascending order;
\* every listed index i has s[i:i+3] = 'III'; every index with s[i:i+3] =
\* 'III' is listed, overlapping occurrences too ('IIII' gives [0, 1]); and the
\* list is empty iff rule_three_possible(s) is false.
C11_SitesExact ==
    Returned("rule_three_indices") =>
        /\ \A j, k \in 1..Len(ret) : j < k => ret[j] < ret[k]
        /\ \A k \in 1..Len(ret) : (ret[k] + 1) \in Sites(arg)
        /\ \A site \in Sites(arg) : \E k \in 1..Len(ret) : ret[k] = site - 1
        /\ Len(ret) = Cardinality(Sites(arg))
        /\ arg = IIII => ret = <<0, 1>>
        /\ (ret = <<>>) <=> ~rule_three_possible(arg)

\* rule_three_indices of a string with overlapping occurrences of 'III'
C11_Witness ==
    /\ Returned("rule_three_indices")
    /\ Len(ret) >= 2
    /\ ret[2] = ret[1] + 1

---------------------------------------------------------------------------
(* C12 *)

MUUI == <<"M", "U", "U", "I">>
MUUUI == <<"M", "U", "U", "U", "I">>

\* C12: for every s containing 'UU', apply_rule_four(s) is s with only the
\* leftmost 'UU' removed; apply_rule_four('MUUI') is 'MI' and
\* apply_rule_four('MUUUI') is 'MUI'.
C12_RuleFourLeftmost ==
    Returned("apply_rule_four") =>
        /\ Pairs(arg) # {} =>
              /\ ret = RemovedAt(arg, Leftmost(Pairs(arg)))
              /\ Len(ret) = Len(arg) - 2
        /\ arg = MUUI => ret = MI
        /\ arg = MUUUI => ret = MUI

\* apply_rule_four of a string with two separate 'UU'
C12_Witness ==
    /\ Returned("apply_rule_four")
    /\ \E j, k \in Pairs(arg) : k > j + 1
    /\ ret = RemovedAt(arg, Leftmost(Pairs(arg)))
    /\ Pairs(ret) # {}

---------------------------------------------------------------------------
(* C13 *)

MUIUI == <<"M", "U", "I", "U", "I">>

\* C13: for every s starting with 'M', apply_rule_two(s) is s followed by s
\* without its first character; apply_rule_two('MI') is 'MII' and
\* apply_rule_two('MUI') is 'MUIUI'.
C13_RuleTwoDoubles ==
    Returned("apply_rule_two") =>
        /\ StartsWithM(arg) =>
              /\ Len(ret) = 2 * Len(arg) - 1
              /\ \A k \in 1..Len(arg) : ret[k] = arg[k]
              /\ \A k \in 2..Len(arg) : ret[Len(arg) + k - 1] = arg[k]
        /\ arg = MI => ret = MII
        /\ arg = MUI => ret = MUIUI

C13_Witness ==
    /\ Returned("apply_rule_two")
    /\ arg = MUI
    /\ ret = MUIUI

---------------------------------------------------------------------------
(* C14 *)

\* the transitions out of the strings at most k - 1 rule applications from ax
TransitionsWithin(ax, k) ==
    IF k = 0 THEN {}
    ELSE UNION {{<<s, d>> : d \in RuleSuccessors(s)} : s \in ReachWithin(ax, k - 1)}

\* the network of ax and k as a value computed from ax and k alone
NetworkOf(ax, k) ==
    [nodes |-> ReachWithin(ax, k),
     edges |-> [e \in TransitionsWithin(ax, k) |-> get_options(e[1])[e[2]]]]

\* C14: the network discover_local_network returns is a function of the axiom
\* and the depth alone: whatever the order in which the nodes of each round
\* were expanded, and whatever was called before, the node set and the edge
\* map after round i are those of NetworkOf(axiom, i), and the returned
\* network is NetworkOf(axiom, num_steps); so two runs with the same axiom and
\* depth return identical node sets and edge maps.
C14_NetworkIsFunctionOfInputs ==
    /\ pc = "discover_while" =>
          [nodes |-> nodes, edges |-> edges] = NetworkOf(axiom, i)
    /\ DiscoverReturned => ret = NetworkOf(axiom, num_steps)

\* a returned depth-2 network in which two nodes expanded in the same round
\* have an edge into the same destination
C14_Witness ==
    /\ DiscoverReturned
    /\ num_steps = 2
    /\ \E e1, e2 \in DOMAIN ret.edges :
          /\ e1[1] # e2[1]
          /\ e1[2] = e2[2]
          /\ {e1[1], e2[1]} \subseteq ReachWithin(axiom, 1)
    /\ ret = NetworkOf(axiom, 2)

---------------------------------------------------------------------------
(* C15 *)

DigitOf(d) ==
    CASE d = 0 -> "0" [] d = 1 -> "1" [] d = 2 -> "2" [] d = 3 -> "3"
      [] d = 4 -> "4" [] d = 5 -> "5" [] d = 6 -> "6" [] d = 7 -> "7"
      [] d = 8 -> "8" [] d = 9 -> "9"

\* the decimal numeral of n >= 0
RECURSIVE Numeral(_)
Numeral(n) ==
    IF n <= 9 THEN <<DigitOf(n)>> ELSE Append(Numeral(n \div 10), DigitOf(n % 10))

\* the entries of get_options(arg) carry these labels: '1', '2' and '4' for
\* rules 1, 2 and 4, and prefix followed by the zero-based index of the site
\* for each site of rule 3
LabelsAre(prefix) ==
    /\ EndsInI(arg) => ret[AppendU(arg)] = <<"1">>
    /\ StartsWithM(arg) => ret[Doubled(arg)] = <<"2">>
    /\ \A k \in Sites(arg) : ret[ReplacedAt(arg, k)] = prefix \o Numeral(k - 1)
    /\ Pairs(arg) # {} => ret[RemovedAt(arg, Leftmost(Pairs(arg)))] = <<"4">>

\* C15 as stated: the rule-3 entry for the site at zero-based index i carries
\* the label "3@i"; the rule 1, 2 and 4 entries carry "1", "2" and "4".
C15_LabelsWithAt ==
    Returned("get_options") => LabelsAre(<<"3", "@">>)

\* C15 as amended: the rule-3 entry for the site at zero-based index i carries
\* the label '3i' followed by the decimal index ('3i0', '3i1', ...); the rule
\* 1, 2 and 4 entries carry '1', '2' and '4'.
C15_LabelsWithI ==
    Returned("get_options") => LabelsAre(<<"3", "i">>)

\* get_options of a string with two sites of 'III', not at index 0
C15_Witness ==
    /\ Returned("get_options")
    /\ \E j, k \in Sites(arg) : 1 < j /\ j < k
    /\ \A k \in Sites(arg) : ret[ReplacedAt(arg, k)] = <<"3", "i">> \o Numeral(k - 1)

---------------------------------------------------------------------------
(* C16 *)

\* the nodes the running call has expanded so far: those of the earlier
\* rounds and those the for loop of this round has visited
Expanded ==
    (IF i > 0 THEN ReachWithin(axiom, i - 1) ELSE {})
    \cup (IF pc = "discover_for" THEN nodes \ todo ELSE {})

\* es holds only valid transitions between nodes of final, out of sources
ValidEdges(es, final, sources) ==
    \A e \in DOMAIN es :
        /\ e[1] \in sources
        /\ e[1] \in final
        /\ e[2] \in final
        /\ e[2] \in RuleSuccessors(e[1])
        /\ e[2] \in Keys(get_options(e[1]))
        /\ es[e] = get_options(e[1])[e[2]]

\* C16: in every state of a running discover_local_network, and in the
\* network it returns, every entry (s, d) -> label of the edge map has s and
\* d in the final node set, d a key of get_options(s) and label =
\* get_options(s)[d], and s is a node that has been expanded.
C16_EdgesAreValid ==
    /\ DiscoverRunning =>
          /\ ValidEdges(edges, ReachWithin(axiom, num_steps), Expanded)
          /\ Expanded \subseteq nodes
    /\ DiscoverReturned =>
          ValidEdges(ret.edges, ret.nodes,
                     IF num_steps > 0 THEN ReachWithin(axiom, num_steps - 1) ELSE {})

\* inside the second round: edges of the first round are there, one node of
\* this round has been expanded and another has not
C16_Witness ==
    /\ pc = "discover_for"
    /\ i = 1
    /\ todo # {}
    /\ nodes \ todo # {}
    /\ \E e \in DOMAIN edges : e[1] \in nodes \ todo /\ e[1] # axiom
    /\ \A e \in DOMAIN edges : e[1] \notin todo \/ e[1] = axiom

---------------------------------------------------------------------------
(* C17 *)

\* the rule applications s admits: rule 1, rule 2, rule 3 at each site, rule 4
Applications(s) ==
    (IF EndsInI(s) THEN {<<"1", 0>>} ELSE {})
    \cup (IF StartsWithM(s) THEN {<<"2", 0>>} ELSE {})
    \cup {<<"3", k>> : k \in Sites(s)}
    \cup (IF Pairs(s) # {} THEN {<<"4", 0>>} ELSE {})

\* the string an application of Applications(s) produces
Produces(s, a) ==
    CASE a[1] = "1" -> AppendU(s)
      [] a[1] = "2" -> Doubled(s)
      [] a[1] = "3" -> ReplacedAt(s, a[2])
      [] a[1] = "4" -> RemovedAt(s, Leftmost(Pairs(s)))

\* C17: no two distinct rule applications to s produce the same successor, so
\* get_options(s) has exactly one entry per applicable rule application and
\* no label is overwritten.
C17_KeysUnique ==
    Returned("get_options") =>
        /\ \A a, b \in Applications(arg) :
              a # b => Produces(arg, a) # Produces(arg, b)
        /\ Cardinality(Keys(ret)) = Cardinality(Applications(arg))
        /\ \A a \in Applications(arg) : Produces(arg, a) \in Keys(ret)

\* C17, the consequence for discover_local_network: a write of an edge that is
\* already in the edge map stores the label it had.
C17_EdgeRewritesKeepLabel ==
    [][\A e \in (DOMAIN edges) \cap (DOMAIN edges') : edges'[e] = edges[e]]_vars

\* get_options of a string that admits at least four rule applications, two
\* of them rule 3 at different sites: as many entries as applications
C17_Witness ==
    /\ Returned("get_options")
    /\ Cardinality(Applications(arg)) >= 4
    /\ Cardinality(Sites(arg)) >= 2
    /\ Cardinality(Keys(ret)) = Cardinality(Applications(arg))

\* a state of discover_local_network in which the next expansion writes
\* edges that are already in the edge map
C17_RewriteWitness ==
    /\ pc = "discover_for"
    /\ \E node \in todo : \E d \in Keys(get_options(node)) :
          <<node, d>> \in DOMAIN edges

---------------------------------------------------------------------------
(* C18 *)

\* C18: discover_local_network(depth) terminates after exactly depth rounds,
\* also when a round finds no new node: the round counter starts at 0, stays
\* within 0..num_steps, goes up by exactly one at the end of each round and by
\* nothing else, the call returns only when the counter equals num_steps, the
\* node set never shrinks while the call runs, and every running call returns.
C18_ExactlyDepthRounds ==
    /\ [](DiscoverRunning => (i >= 0 /\ i <= num_steps))
    /\ [][(~DiscoverRunning /\ DiscoverRunning') => i' = 0]_vars
    /\ [][(DiscoverRunning /\ DiscoverRunning') =>
             /\ nodes \subseteq nodes'
             /\ IF pc = "discover_for" /\ pc' = "discover_while"
                THEN i' = i + 1 ELSE i' = i]_vars
    /\ [][(DiscoverRunning /\ ~DiscoverRunning') =>
             (i = num_steps /\ DiscoverReturned' /\ nodes \subseteq ret'.nodes)]_vars
    /\ (DiscoverRunning ~> DiscoverReturned)

\* two rounds from the axiom 'M', whose only successor is 'M' itself, and
\* from an axiom with no successor at all ('U'): no round finds a new node
C18_Witness ==
    /\ DiscoverReturned
    /\ num_steps = 2
    /\ axiom \in {<<"M">>, <<"U">>}
    /\ ret.nodes = {axiom}

---------------------------------------------------------------------------
(* C19 *)

\* s starts with 'M', rule 2 applies to it and its option set is not empty
Alive(s) ==
    /\ StartsWithM(s)
    /\ rule_two_possible(s)
    /\ Doubled(s) \in Keys(get_options(s))

\* C19: if the axiom starts with 'M', every state the walk visits and every
\* node of the network (found or about to be added) starts with 'M', rule 2
\* applies to it and its option set is not empty; random_walk never ends in
\* the fault of an empty option set, the Path it returns has num_steps+1
\* states, and every running walk returns.
C19_LeadingMKeepsAlive ==
    /\ [](StartsWithM(axiom) =>
            /\ DiscoverRunning => \A s \in nodes \cup new_neighbours : Alive(s)
            /\ DiscoverReturned => \A s \in ret.nodes : Alive(s)
            /\ pc = "walk_while" => \A k \in 1..Len(strings) : Alive(strings[k])
            /\ fn = "random_walk" => pc # "raised"
            /\ WalkReturned =>
                  /\ Len(ret.strings) = num_steps + 1
                  /\ \A k \in 1..Len(ret.strings) : Alive(ret.strings[k]))
    /\ ((pc = "walk_while" /\ StartsWithM(axiom)) ~> WalkReturned)

\* a returned three-step walk from an axiom starting with 'M' that took a
\* rule-3 or a rule-4 step
C19_Witness ==
    /\ WalkReturned
    /\ StartsWithM(axiom)
    /\ num_steps = 3
    /\ \E k \in 2..Len(ret.rules) : Head(ret.rules[k]) \in {"3", "4"}
    /\ \A k \in 1..Len(ret.strings) : StartsWithM(ret.strings[k])

---------------------------------------------------------------------------
(* C20 *)

MU == <<"M", "U">>

\* the number of 'I' in s
ICount(s) == Cardinality({k \in 1..Len(s) : s[k] = "I"})

Sound(s) == ICount(s) % 3 # 0 /\ s # MU

\* C20: with the axiom 'MI', every node of the network (found or about to be
\* added, and every key of get_options of a node) and every state of the walk
\* has a number of 'I' that is not divisible by 3, and none of them is 'MU'.
C20_ICountNeverMultipleOfThree ==
    axiom = MI =>
        /\ DiscoverRunning =>
              /\ \A s \in nodes \cup new_neighbours : Sound(s)
              /\ \A s \in nodes : \A d \in Keys(get_options(s)) : Sound(d)
        /\ DiscoverReturned =>
              /\ \A s \in ret.nodes : Sound(s)
              /\ \A e \in DOMAIN ret.edges : Sound(e[1]) /\ Sound(e[2])
        /\ pc = "walk_while" => \A k \in 1..Len(strings) : Sound(strings[k])
        /\ WalkReturned => \A k \in 1..Len(ret.strings) : Sound(ret.strings[k])

\* a returned walk from 'MI' that took a rule-3 step
C20_Witness ==
    /\ WalkReturned
    /\ axiom = MI
    /\ \E k \in 2..Len(ret.rules) : Head(ret.rules[k]) = "3"
    /\ \A k \in 1..Len(ret.strings) : ICount(ret.strings[k]) % 3 # 0

\* C20, the step that carries it to any depth and any number of steps: from
\* a string whose number of 'I' is not divisible by 3, every key of
\* get_options has a number of 'I' that is not divisible by 3.
C20_StepKeepsICount ==
    (Returned("get_options") /\ ICount(arg) % 3 # 0) =>
        \A d \in Keys(ret) : ICount(d) % 3 # 0

====
